---- MODULE Spec2Model ----
(***************************************************************************)
(* PyConfigEvents: field subscription and notification of DataModel        *)
(* (src/pyconfigevents/model.py).                                          *)
(*                                                                         *)
(* Every action is one complete call of a DataModel method, dispatch of    *)
(* the callbacks included.  lastOp records the call and its outcome, calls *)
(* the callback invocations it made, in order.                             *)
(***************************************************************************)
EXTENDS Integers, Sequences, FiniteSets

(***************************************************************************)
(* Bounds of the exploration.                                              *)
(***************************************************************************)
\* largest number of (model, field, callback) registrations alive at once
MaxRegistered == 3
\* largest number of entries of the mapping given to *_multiple
MaxEntries == 2
\* largest number of cards in the card_list of the raw data of a UIConfig
MaxCards == 2
\* the reference count of a directory stays within MaxCount and -MaxDebt
MaxCount == 3
MaxDebt == 2
\* the time since the last event is counted up to MaxTime seconds
MaxTime == 3
\* the largest number of callbacks registered when callbacks call back into a model
MaxListeners == 2

(***************************************************************************)
(* The classes and instances of the tests: a Config with two plain fields, *)
(* a User that holds a nested Address, two Address instances and one       *)
(* instance of a subclass of Address; a root ConfigModel read from a file, *)
(* the Theme it holds and a second Theme.                                  *)
(***************************************************************************)
Models == {"C", "P", "K1", "K2", "S", "R", "T", "T2"}

class == [m \in Models |->
            CASE m = "C" -> "Config"
              [] m = "P" -> "User"
              [] m = "K1" -> "Address"
              [] m = "K2" -> "Address"
              [] m = "S" -> "SubAddress"
              [] m = "R" -> "ConfigModel"
              [] m = "T" -> "Theme"
              [] m = "T2" -> "Theme"]

\* the two fields that RootModel declares for its own bookkeeping
Bookkeeping == {"py_cfg_events_file_path", "py_cfg_events_auto_save"}

\* cls.model_fields: the declared fields of a class (a subclass inherits them)
model_fields(c) ==
    CASE c = "Config" -> {"name", "tags"}
      [] c = "User" -> {"address"}
      [] c = "Address" -> {"city"}
      [] c = "SubAddress" -> {"city"}
      [] c = "ConfigModel" -> {"version", "theme"} \cup Bookkeeping
      [] c = "Theme" -> {"color"}

\* the declared type of each field:
\* name: str, tags: List[str], address: Address, city: str, version: str,
\* theme: Theme, color: str, py_cfg_events_file_path: Path,
\* py_cfg_events_auto_save: bool
annotation(f) ==
    CASE f = "name" -> "str"
      [] f = "tags" -> "List[str]"
      [] f = "address" -> "Address"
      [] f = "city" -> "str"
      [] f = "version" -> "str"
      [] f = "theme" -> "Theme"
      [] f = "color" -> "str"
      [] f = "py_cfg_events_file_path" -> "Path"
      [] f = "py_cfg_events_auto_save" -> "bool"

\* a name that no class declares
Undeclared == "nofield"

Names == {"name", "tags", "address", "city", "version", "theme", "color", Undeclared}
            \cup Bookkeeping

\* the names a caller passes to an instance: its declared fields and a wrong one
NamesOf(m) == model_fields(class[m]) \cup {Undeclared}

(***************************************************************************)
(* Python values: runtime type, element type (lists) and content.  A model *)
(* object is a reference to an instance; its runtime type is its class.    *)
(***************************************************************************)
Str(s) == [type |-> "str", elem |-> "", repr |-> s]
Number(s) == [type |-> "int", elem |-> "", repr |-> s]
ListOf(e, s) == [type |-> "list", elem |-> e, repr |-> s]
Ref(m) == [type |-> class[m], elem |-> "", repr |-> m]

IsRef(v) == v.repr \in Models /\ v.type = class[v.repr]

\* the canonical paths of the configuration files
Paths == {"/w/config.json", "/w/config2.json"}

PathOf(p) == [type |-> "PosixPath", elem |-> "", repr |-> p]
Bool(b) == [type |-> "bool", elem |-> "", repr |-> IF b THEN "True" ELSE "False"]
None == [type |-> "NoneType", elem |-> "", repr |-> "None"]

\* the values a caller assigns to a name: values of the field's type, equal
\* to and different from the current one, and values of another type
Assigned(name) ==
    CASE name = "name" -> {Str("a"), Str("b"), Number("1")}
      [] name = "city" -> {Str("a"), Str("b"), Number("1")}
      [] name = "tags" -> {ListOf("str", "a"), ListOf("int", "1"), Str("a")}
      [] name = "address" -> {Ref("K1"), Ref("K2"), Ref("S")}
      [] name = "version" -> {Str("a"), Str("b"), Number("1")}
      [] name = "color" -> {Str("a"), Str("b")}
      [] name = "theme" -> {Ref("T"), Ref("T2")}
      [] name = "py_cfg_events_file_path" -> {PathOf(p) : p \in Paths}
      [] name = "py_cfg_events_auto_save" -> {Bool(TRUE), Bool(FALSE)}
      [] OTHER -> {Str("a")}

\* isinstance-style satisfaction of a declared field type
SubclassOf(c, d) == c = d \/ (c = "SubAddress" /\ d = "Address")

Accepts(ann, v) ==
    CASE ann = "str" -> v.type = "str"
      [] ann = "List[str]" -> v.type = "list" /\ v.elem = "str"
      [] ann = "Address" -> SubclassOf(v.type, "Address")
      [] ann = "Theme" -> SubclassOf(v.type, "Theme")
      [] ann = "Path" -> v.type = "PosixPath"
      [] ann = "bool" -> v.type = "bool"

(***************************************************************************)
(* The callbacks of the tests: on_field_change only counts,                *)
(* on_name_change asserts the value it is given.                           *)
(***************************************************************************)
Callbacks == {"on_field_change", "on_name_change"}

\* on_name_change: assert new_value == "Bob"
Raises(cb, v) == cb = "on_name_change" /\ v # Str("b")

VARIABLES
    value,        \* value[m][f]: the current value of field f of instance m
    subscribers,  \* subscribers[m]: the instance's defaultdict field -> set of callbacks
    lastOp,       \* the last call: method, arguments, outcome, and whether the
                  \* callbacks it names were registered when it started
    calls,        \* the callback invocations made by the last call, in order
    disk,         \* disk[p]: the file at the canonical path p
    pce_root_model, \* pce_root_model[c]: the root that the child c refers to; a
                    \* child is named by its root and its place in the tree
    watch_files,    \* the watcher's dict ConfigFile -> reload callback
    pending_events, \* the watcher's set of the paths of the events not yet processed
    timer,          \* the watcher's timer: never created, waiting for its delay,
                    \* running _trigger_processing, or finished
    files,          \* the paths of the batch that _trigger_processing still has to walk
    reloads,        \* what the batch did with each path it walked, in order
    manager,        \* ObserverManager: _instance, _is_init, the observers started,
                    \* _dir_to_event_handler, _dir_count, the handlers scheduled
    thread,         \* thread[t]: where the thread t is in its call of watch
    clock,          \* the watcher's time: the delay its constructor was given, the
                    \* delay it uses, the time since its timer was started and
                    \* the time since the last event it accepted
    checked,        \* the path that the loop of _trigger_processing has found
                    \* in watch_files and not yet looked up, "" when none
    stack           \* the writes under way, the outermost first: for each one
                    \* the instance, the field, the value and the callbacks
                    \* that its loop has still to call

\* the state of a ConfigFileEventHandler
watcher == <<watch_files, pending_events, timer, files, reloads, clock, checked>>

\* the state of the ObserverManager and of the calls under way
registry == <<manager, thread, stack>>

vars == <<value, subscribers, lastOp, calls, disk, pce_root_model,
          watch_files, pending_events, timer, files, reloads, manager, thread,
          clock, checked, stack>>

\* what the methods of DataModel never touch
beyondModel == <<disk, pce_root_model, watch_files, pending_events, timer, files,
                 reloads, manager, thread, clock, checked, stack>>

(***************************************************************************)
(* Files: a file holds a key-value tree, is missing, or holds text that    *)
(* does not parse.                                                         *)
(***************************************************************************)
Contents == {"a", "b"}

\* {"version": version, "theme": {"color": color}}
Tree(version, color) == [version |-> Str(version), theme |-> [color |-> Str(color)]]

NoTree == [x \in {} |-> {}]

Regular(tree) == [kind |-> "file", tree |-> tree]
Absent == [kind |-> "absent", tree |-> NoTree]
Corrupt == [kind |-> "corrupt", tree |-> NoTree]

\* read_config(file_path): the tree of the file, or the error of a file that
\* is missing or does not parse
read_config(d, file_path) ==
    IF d[file_path].kind = "file"
    THEN [result |-> "ok", tree |-> d[file_path].tree]
    ELSE [result |-> "FileReadError", tree |-> NoTree]

\* save_to_file(data, file_path) of utils: the file becomes the tree
save_file(d, file_path, data) == [d EXCEPT ![file_path] = Regular(data)]

NoValue == [type |-> "", elem |-> "", repr |-> ""]

Op(op, m, name, cb, v, entries, had, result) ==
    [op |-> op, model |-> m, name |-> name, cb |-> cb, val |-> v,
     entries |-> entries, had |-> had, result |-> result]

\* callback in d[field], for a dict d that may lack the key
Has(d, field, callback) == field \in DOMAIN d /\ callback \in d[field]

\* the number of registrations alive
Registered(subs) ==
    Cardinality({t \in Models \X Names \X Callbacks : Has(subs[t[1]], t[2], t[3])})

\* d[k] of a defaultdict(set): the entry, created empty when missing
Touch(d, k) == [x \in DOMAIN d \cup {k} |-> IF x \in DOMAIN d THEN d[x] ELSE {}]

\* the directories that hold the watched files
Dirs == {"/w", "/w/temp"}

\* the threads that call the ObserverManager at the same time
Threads == {"t1", "t2"}

\* ConfigFileEventHandler.__init__(delay): the delay of the timer is 1.0
\* whatever delay is given; time is counted in seconds
ConfigFileEventHandlerInit(delay) ==
    [requested |-> delay, delay |-> 1, armed |-> 0, quiet |-> 0]

\* a thread that is in no call
Idle == [pc |-> "idle", name |-> "", callback |-> ""]

\* R = ConfigModel.from_file("/w/config.json") with T the Theme built from
\* the file's tree, T2 = Theme(color="b");
\* Config(name="a", tags=["a"]), User(address=K1), K1 = Address(city="a"),
\* K2 = Address(city="b"), S = SubAddress(city="a"); every instance starts
\* with its own empty registry
Init ==
    /\ value = [m \in Models |->
                  [f \in model_fields(class[m]) |->
                     CASE f = "name" -> Str("a")
                       [] f = "tags" -> ListOf("str", "a")
                       [] f = "address" -> Ref("K1")
                       [] f = "city" -> IF m = "K2" THEN Str("b") ELSE Str("a")
                       [] f = "version" -> Str("a")
                       [] f = "theme" -> Ref("T")
                       [] f = "color" -> IF m = "T2" THEN Str("b") ELSE Str("a")
                       [] f = "py_cfg_events_file_path" -> PathOf("/w/config.json")
                       [] f = "py_cfg_events_auto_save" -> Bool(FALSE)]]
    /\ subscribers = [m \in Models |-> [x \in {} |-> {}]]
    /\ lastOp = Op("init", "", "", "", NoValue, <<>>, FALSE, "ok")
    /\ calls = <<>>
    /\ disk = [p \in Paths |->
                 IF p = "/w/config.json" THEN Regular(Tree("a", "a")) ELSE Absent]
    /\ pce_root_model = [c \in {<<"R", "theme">>} |-> "R"]
    /\ watch_files = [k \in {} |-> ""]
    /\ pending_events = {}
    /\ timer = "None"
    /\ files = {}
    /\ reloads = <<>>
    /\ manager = [instance |-> 0, is_init |-> FALSE, observers |-> 0,
                  dir_to_event_handler |-> <<>>, dir_count |-> <<>>,
                  scheduled |-> [dir \in Dirs |-> 0]]
    /\ thread = [t \in Threads |-> Idle]
    /\ clock = ConfigFileEventHandlerInit(1)
    /\ checked = ""
    /\ stack = <<>>

(***************************************************************************)
(* DataModel.subscribe                                                     *)
(***************************************************************************)
\* subscribe without the check of the field name
subscribeUnchecked(m, d, field, callback) ==
    [reg |-> [Touch(d, field) EXCEPT ![field] = @ \cup {callback}], result |-> "ok"]

\* the registry after subscribe(field, callback), and the outcome
subscribe(m, d, field, callback) ==
    IF field \notin model_fields(class[m])
    THEN [reg |-> d, result |-> "ValueError"]
    ELSE [reg |-> [Touch(d, field) EXCEPT ![field] = @ \cup {callback}],
          result |-> "ok"]

\* subscribe on a registry that the instances of a class share
SubscribeShared(m, field, callback) ==
    LET r == subscribe(m, subscribers[m], field, callback) IN
    /\ subscribers' = [x \in Models |->
                          IF SubclassOf(class[x], class[m]) \/ SubclassOf(class[m], class[x])
                          THEN subscribe(x, subscribers[x], field, callback).reg
                          ELSE subscribers[x]]
    /\ Registered(subscribers') <= MaxRegistered + 2
    /\ lastOp' = Op("subscribe", m, field, callback, NoValue, <<>>,
                    Has(subscribers[m], field, callback), r.result)
    /\ calls' = <<>>
    /\ UNCHANGED value
    /\ UNCHANGED beyondModel

Subscribe(m, field, callback) ==
    LET r == subscribe(m, subscribers[m], field, callback) IN
    /\ subscribers' = [subscribers EXCEPT ![m] = r.reg]
    /\ Registered(subscribers') <= MaxRegistered
    /\ lastOp' = Op("subscribe", m, field, callback, NoValue, <<>>,
                    Has(subscribers[m], field, callback), r.result)
    /\ calls' = <<>>
    /\ UNCHANGED value
    /\ UNCHANGED beyondModel

(***************************************************************************)
(* DataModel.unsubscribe                                                   *)
(***************************************************************************)
\* unsubscribe that removes from a copy of the set
unsubscribeCopy(m, d, field, callback) ==
    IF field \in DOMAIN d /\ callback \notin d[field]
    THEN [reg |-> d, result |-> "KeyError"]
    ELSE [reg |-> d, result |-> "ok"]

\* unsubscribe that drops every callback of the field
unsubscribeClear(m, d, field, callback) ==
    IF field \in DOMAIN d
    THEN IF callback \in d[field]
         THEN [reg |-> [d EXCEPT ![field] = {}], result |-> "ok"]
         ELSE [reg |-> d, result |-> "KeyError"]
    ELSE [reg |-> d, result |-> "ok"]

\* the registry after unsubscribe(field, callback), and the outcome:
\* set.remove raises KeyError when the callback is not in the set
unsubscribe(m, d, field, callback) ==
    IF field \in DOMAIN d
    THEN IF callback \in d[field]
         THEN [reg |-> [d EXCEPT ![field] = @ \ {callback}], result |-> "ok"]
         ELSE [reg |-> d, result |-> "KeyError"]
    ELSE [reg |-> d, result |-> "ok"]

Unsubscribe(m, field, callback) ==
    LET r == unsubscribe(m, subscribers[m], field, callback) IN
    /\ subscribers' = [subscribers EXCEPT ![m] = r.reg]
    /\ lastOp' = Op("unsubscribe", m, field, callback, NoValue, <<>>,
                    Has(subscribers[m], field, callback), r.result)
    /\ calls' = <<>>
    /\ UNCHANGED value
    /\ UNCHANGED beyondModel

(***************************************************************************)
(* DataModel.subscribe_multiple / unsubscribe_multiple: the mapping is     *)
(* walked in its insertion order; the first entry that raises ends the     *)
(* loop.                                                                   *)
(***************************************************************************)
\* the mappings field -> callback of at most MaxEntries entries, as the
\* sequence of their items (the keys of a dict are distinct)
Mappings(m) ==
    UNION {{e \in [1..n -> NamesOf(m) \X Callbacks] :
               \A i, j \in 1..n : i # j => e[i][1] # e[j][1]} : n \in 1..MaxEntries}

RECURSIVE subscribe_multiple(_, _, _)
subscribe_multiple(m, d, field_callbacks) ==
    IF field_callbacks = <<>>
    THEN [reg |-> d, result |-> "ok"]
    ELSE LET r == subscribe(m, d, Head(field_callbacks)[1], Head(field_callbacks)[2]) IN
         IF r.result # "ok"
         THEN r
         ELSE subscribe_multiple(m, r.reg, Tail(field_callbacks))

RECURSIVE unsubscribe_multiple(_, _, _)
unsubscribe_multiple(m, d, field_callbacks) ==
    IF field_callbacks = <<>>
    THEN [reg |-> d, result |-> "ok"]
    ELSE LET r == unsubscribe(m, d, Head(field_callbacks)[1], Head(field_callbacks)[2]) IN
         IF r.result # "ok"
         THEN r
         ELSE unsubscribe_multiple(m, r.reg, Tail(field_callbacks))

\* every entry of the mapping is registered in d
AllHad(d, field_callbacks) ==
    \A i \in DOMAIN field_callbacks : Has(d, field_callbacks[i][1], field_callbacks[i][2])

SubscribeMultiple(m, field_callbacks) ==
    LET r == subscribe_multiple(m, subscribers[m], field_callbacks) IN
    /\ subscribers' = [subscribers EXCEPT ![m] = r.reg]
    /\ Registered(subscribers') <= MaxRegistered
    /\ lastOp' = Op("subscribe_multiple", m, "", "", NoValue, field_callbacks,
                    AllHad(subscribers[m], field_callbacks), r.result)
    /\ calls' = <<>>
    /\ UNCHANGED value
    /\ UNCHANGED beyondModel

UnsubscribeMultiple(m, field_callbacks) ==
    LET r == unsubscribe_multiple(m, subscribers[m], field_callbacks) IN
    /\ subscribers' = [subscribers EXCEPT ![m] = r.reg]
    /\ lastOp' = Op("unsubscribe_multiple", m, "", "", NoValue, field_callbacks,
                    AllHad(subscribers[m], field_callbacks), r.result)
    /\ calls' = <<>>
    /\ UNCHANGED value
    /\ UNCHANGED beyondModel

(***************************************************************************)
(* DataModel.__setattr__                                                   *)
(***************************************************************************)
\* a write that never takes the early return of an unchanged value
ValueEqNever(old, new) == FALSE

\* model objects compared by identity instead of by content
ValueEqIdentity(old, new) == old = new

\* old_value == value: values of one runtime type compare by content; two
\* model objects are equal when their class, their fields and their private
\* attributes (the subscriber registry) are equal
ValueEq(old, new) ==
    IF IsRef(old) /\ IsRef(new)
    THEN /\ old.type = new.type
         /\ value[old.repr] = value[new.repr]
         /\ subscribers[old.repr] = subscribers[new.repr]
    ELSE old = new

\* the orders in which the for loop may walk the set of callbacks
Orders(S) ==
    {o \in [1..Cardinality(S) -> S] : \A i, j \in DOMAIN o : i # j => o[i] # o[j]}

\* the position of the first callback of the walk that raises, 0 when none
FirstRaise(order, v) ==
    IF \E i \in DOMAIN order : Raises(order[i], v)
    THEN CHOOSE i \in DOMAIN order :
            /\ Raises(order[i], v)
            /\ \A j \in 1..(i - 1) : ~Raises(order[j], v)
    ELSE 0

\* for callback in self.__subscribers[name]: callback(value)
\* an exception of a callback leaves the loop and the method
Notify(order, v) ==
    LET k == FirstRaise(order, v) IN
    [calls |-> [i \in 1..(IF k = 0 THEN Len(order) ELSE k) |->
                  [cb |-> order[i], arg |-> v]],
     result |-> IF k = 0 THEN "ok" ELSE "CallbackError"]

\* the callbacks of every field instead of those of the field written
ListenersAll(d, name) == UNION {d[k] : k \in DOMAIN d}

\* self.__subscribers[name]: the callbacks of the field (the read creates the
\* entry of the defaultdict, see Touch)
Listeners(d, name) == Touch(d, name)[name]

\* type(value) is not type(old_value)
TypeMismatch(v, old) == v.type # old.type

SetAttr(m, name, v) ==
    /\ UNCHANGED beyondModel
    /\ IF name \notin model_fields(class[m])
       THEN /\ lastOp' = Op("setattr", m, name, "", v, <<>>, FALSE, "AttributeError")
            /\ calls' = <<>>
            /\ UNCHANGED <<value, subscribers>>
       ELSE LET old_value == value[m][name] IN
            IF TypeMismatch(v, old_value)
            THEN /\ lastOp' = Op("setattr", m, name, "", v, <<>>, FALSE, "TypeError")
                 /\ calls' = <<>>
                 /\ UNCHANGED <<value, subscribers>>
            ELSE /\ value' = [value EXCEPT ![m][name] = v]
                 /\ IF ValueEq(old_value, v)
                    THEN /\ lastOp' = Op("setattr", m, name, "", v, <<>>, FALSE, "ok")
                         /\ calls' = <<>>
                         /\ UNCHANGED subscribers
                    ELSE /\ subscribers' = [subscribers EXCEPT ![m] = Touch(@, name)]
                         /\ \E order \in Orders(Listeners(subscribers[m], name)) :
                               LET n == Notify(order, v) IN
                               /\ calls' = n.calls
                               /\ lastOp' = Op("setattr", m, name, "", v, <<>>, FALSE, n.result)

(***************************************************************************)
(* test_single_field_subscription: subscribe, unsubscribe and writes on    *)
(* one Config instance.                                                    *)
(***************************************************************************)
Next ==
    \/ \E name \in NamesOf("C"), cb \in Callbacks : Subscribe("C", name, cb)
    \/ \E name \in NamesOf("C"), cb \in Callbacks : Unsubscribe("C", name, cb)
    \/ \E name \in NamesOf("C") : \E v \in Assigned(name) : SetAttr("C", name, v)

Spec == Init /\ [][Next]_vars

(***************************************************************************)
(* test_unsubscribe_multiple: every method of one Config instance, the     *)
(* *_multiple ones included.                                               *)
(***************************************************************************)
NextMultiple ==
    \/ \E name \in NamesOf("C"), cb \in Callbacks : Subscribe("C", name, cb)
    \/ \E name \in NamesOf("C"), cb \in Callbacks : Unsubscribe("C", name, cb)
    \/ \E fc \in Mappings("C") : SubscribeMultiple("C", fc)
    \/ \E fc \in Mappings("C") : UnsubscribeMultiple("C", fc)
    \/ \E name \in NamesOf("C") : \E v \in Assigned(name) : SetAttr("C", name, v)

SpecMultiple == Init /\ [][NextMultiple]_vars

(***************************************************************************)
(* test_nested_models: a User, the Address it holds and a second Address.  *)
(***************************************************************************)
Nested == {"P", "K1", "K2"}

NextNested ==
    \/ \E m \in Nested : \E name \in NamesOf(m), cb \in Callbacks : Subscribe(m, name, cb)
    \/ \E m \in Nested : \E name \in NamesOf(m), cb \in Callbacks : Unsubscribe(m, name, cb)
    \/ \E m \in Nested : \E name \in NamesOf(m) : \E v \in Assigned(name) : SetAttr(m, name, v)

SpecNested == Init /\ [][NextNested]_vars

(***************************************************************************)
(* test_change_field: two instances of a class and one of its subclass.    *)
(***************************************************************************)
Inheritance == {"K1", "K2", "S"}

NextInheritance ==
    \/ \E m \in Inheritance : \E name \in NamesOf(m), cb \in Callbacks : Subscribe(m, name, cb)
    \/ \E m \in Inheritance : \E name \in NamesOf(m), cb \in Callbacks : Unsubscribe(m, name, cb)
    \/ \E m \in Inheritance : \E name \in NamesOf(m) : \E v \in Assigned(name) : SetAttr(m, name, v)

SpecInheritance == Init /\ [][NextInheritance]_vars

(***************************************************************************)
(* RootModel: from_file, to_dict and save_to_file.                         *)
(***************************************************************************)
\* self.model_dump(): the declared fields with their current values, a
\* nested model as the dump of its own fields
RECURSIVE model_dump(_, _)
model_dump(val, m) ==
    [f \in model_fields(class[m]) |->
        IF IsRef(val[m][f]) THEN model_dump(val, val[m][f].repr) ELSE val[m][f]]

\* a dump that keeps the two bookkeeping entries
toDictUnpopped(val, m) == model_dump(val, m)

\* to_dict: model_dump() with the two bookkeeping entries popped
to_dict(val, m) ==
    LET res == model_dump(val, m) IN
    [f \in DOMAIN res \ Bookkeeping |-> res[f]]

\* save_to_file that always writes the bound file
saveToBound(val, d, m, file_path) ==
    IF val[m]["py_cfg_events_file_path"] = None
    THEN [disk |-> d, result |-> "ValueError"]
    ELSE [disk |-> save_file(d, val[m]["py_cfg_events_file_path"].repr, to_dict(val, m)),
          result |-> "ok"]

\* save_to_file(file_path): the disk afterwards, and the outcome
save_to_file(val, d, m, file_path) ==
    IF file_path = None /\ val[m]["py_cfg_events_file_path"] = None
    THEN [disk |-> d, result |-> "ValueError"]
    ELSE LET target == IF file_path = None
                       THEN val[m]["py_cfg_events_file_path"]
                       ELSE file_path
         IN  [disk |-> save_file(d, target.repr, to_dict(val, m)), result |-> "ok"]

SaveToFile(m, file_path) ==
    LET r == save_to_file(value, disk, m, file_path) IN
    /\ disk' = r.disk
    /\ lastOp' = Op("save_to_file", m, "", "", file_path, <<>>, FALSE, r.result)
    /\ calls' = <<>>
    /\ UNCHANGED <<value, subscribers, pce_root_model>>
    /\ UNCHANGED <<watcher, registry>>

\* cls(**config_data) of from_file: the fields of the new root and of the
\* Theme built from the nested tree
from_file(d, file_path, auto_save) ==
    LET config_data == read_config(d, file_path) IN
    IF config_data.result # "ok"
    THEN [result |-> config_data.result, tree |-> NoTree, root |-> NoTree, theme |-> NoTree]
    ELSE [result |-> "ok",
          tree |-> config_data.tree,
          root |-> [f \in model_fields("ConfigModel") |->
                      CASE f = "py_cfg_events_file_path" -> PathOf(file_path)
                        [] f = "py_cfg_events_auto_save" -> Bool(auto_save)
                        [] f = "theme" -> Ref("T")
                        [] OTHER -> config_data.tree[f]],
          theme |-> [f \in model_fields("Theme") |-> config_data.tree["theme"][f]]]

\* R = ConfigModel.from_file(file_path, auto_save): a new root and its new
\* child take the place of R and T
FromFile(file_path, auto_save) ==
    LET r == from_file(disk, file_path, auto_save) IN
    /\ IF r.result = "ok"
       THEN /\ value' = [value EXCEPT !["R"] = r.root, !["T"] = r.theme]
            /\ subscribers' = [subscribers EXCEPT !["R"] = [x \in {} |-> {}],
                                                  !["T"] = [x \in {} |-> {}]]
            /\ pce_root_model' = [pce_root_model EXCEPT ![<<"R", "theme">>] = "R"]
       ELSE UNCHANGED <<value, subscribers, pce_root_model>>
    /\ lastOp' = Op("from_file", "R", "", "", PathOf(file_path), <<>>, auto_save, r.result)
    /\ calls' = <<>>
    /\ UNCHANGED disk
    /\ UNCHANGED <<watcher, registry>>

\* R = ConfigModel.model_construct(...): a root built from literal values
\* without a file, the root that save_to_file tests for
Construct(version) ==
    /\ value' = [value EXCEPT !["R"] =
                    [f \in model_fields("ConfigModel") |->
                       CASE f = "py_cfg_events_file_path" -> None
                         [] f = "py_cfg_events_auto_save" -> Bool(FALSE)
                         [] f = "theme" -> Ref("T")
                         [] OTHER -> Str(version)]]
    /\ subscribers' = [subscribers EXCEPT !["R"] = [x \in {} |-> {}]]
    /\ lastOp' = Op("construct", "R", "", "", Str(version), <<>>, FALSE, "ok")
    /\ calls' = <<>>
    /\ UNCHANGED <<disk, pce_root_model>>
    /\ UNCHANGED <<watcher, registry>>

\* the fields written in this scenario: the configuration fields that hold
\* plain values, and the auto-save flag
Written(m) == model_fields(class[m]) \ {"theme", "py_cfg_events_file_path"}

\* the arguments of save_to_file: no path, or a path
SavePaths == {None} \cup {PathOf(p) : p \in Paths}

NextRoot ==
    \/ \E m \in {"R", "T"} : \E name \in Written(m) : \E v \in Assigned(name) : SetAttr(m, name, v)
    \/ \E file_path \in SavePaths : SaveToFile("R", file_path)
    \/ \E file_path \in Paths, auto_save \in BOOLEAN : FromFile(file_path, auto_save)
    \/ \E version \in Contents : Construct(version)

SpecRoot == Init /\ [][NextRoot]_vars

(***************************************************************************)
(* ChildModel: a root built from raw nested data gives every child model   *)
(* of its tree a reference to itself.                                      *)
(***************************************************************************)
\* raw nested data: a model with its nested entries, a list, a dict
ModelNode(items) == [kind |-> "model", items |-> items]
Leaf == ModelNode([k \in {} |-> {}])
Index == <<"0", "1", "2", "3">>
ListNode(n) == [kind |-> "list", items |-> [k \in {Index[i] : i \in 1..n} |-> Leaf]]
DictNode(keys) == [kind |-> "dict", items |-> [k \in keys |-> Leaf]]

CardKeys == {"card1", "card2"}

\* {"label": {"font": {...}}, "card_list": [n cards], "card_dict": {key: card}}
UIConfigData(n, keys) ==
    ModelNode([label |-> ModelNode([font |-> Leaf]),
               card_list |-> ListNode(n),
               card_dict |-> DictNode(keys)])

\* the child models built from the raw data below the place path
RECURSIVE ChildrenOf(_, _)
ChildrenOf(node, path) ==
    (IF node.kind = "model" /\ Len(path) > 1 THEN {path} ELSE {})
    \cup UNION {ChildrenOf(node.items[k], Append(path, k)) : k \in DOMAIN node.items}

\* construction that gives the reference to the fields of the root only
constructShallow(refs, r, raw) ==
    LET new == ChildrenOf(raw, <<r>>)
        kept == {c \in DOMAIN refs : c[1] # r}
    IN  [c \in kept \cup new |->
            IF c \in new THEN (IF Len(c) = 2 THEN r ELSE "None") ELSE refs[c]]

\* the references after r = UIConfig(**raw): the children of the object that
\* r named before are gone, every child built from raw refers to r
construct(refs, r, raw) ==
    LET new == ChildrenOf(raw, <<r>>)
        kept == {c \in DOMAIN refs : c[1] # r}
    IN  [c \in kept \cup new |-> IF c \in new THEN r ELSE refs[c]]

Roots == {"U1", "U2"}

UIConfig(r, n, keys) ==
    /\ pce_root_model' = construct(pce_root_model, r, UIConfigData(n, keys))
    /\ lastOp' = Op("UIConfig", r, "", "", NoValue, <<>>, FALSE, "ok")
    /\ calls' = <<>>
    /\ UNCHANGED <<value, subscribers, disk>>
    /\ UNCHANGED <<watcher, registry>>

\* a write of a field of a child
WriteChild(c, v) ==
    /\ c \in DOMAIN pce_root_model
    /\ lastOp' = Op("setattr", c[1], "name", "", v, <<c>>, FALSE, "ok")
    /\ calls' = <<>>
    /\ UNCHANGED <<value, subscribers, disk, pce_root_model>>
    /\ UNCHANGED <<watcher, registry>>

NextChildren ==
    \/ \E r \in Roots, n \in 0..MaxCards, keys \in SUBSET CardKeys : UIConfig(r, n, keys)
    \/ \E c \in DOMAIN pce_root_model : \E v \in Assigned("name") : WriteChild(c, v)

SpecChildren == Init /\ [][NextChildren]_vars

(***************************************************************************)
(* utils.file: the identity of a configuration file.  A path string is a   *)
(* sequence of segments; an absolute path starts with the segment "/".     *)
(***************************************************************************)
RawPaths == {"/w/config.json", "config.json", "/w/./config.json",
             "/w/temp/../config.json", "/w/config2.json", "/w/temp/config.json",
             "temp/config.json", "/w/notes.txt", "/w/temp", "/w/backup.json"}

Segments(p) ==
    CASE p = "/w/config.json" -> <<"/", "w", "config.json">>
      [] p = "config.json" -> <<"config.json">>
      [] p = "/w/./config.json" -> <<"/", "w", ".", "config.json">>
      [] p = "/w/temp/../config.json" -> <<"/", "w", "temp", "..", "config.json">>
      [] p = "/w/config2.json" -> <<"/", "w", "config2.json">>
      [] p = "/w/temp/config.json" -> <<"/", "w", "temp", "config.json">>
      [] p = "temp/config.json" -> <<"temp", "config.json">>
      [] p = "/w/notes.txt" -> <<"/", "w", "notes.txt">>
      [] p = "/w/temp" -> <<"/", "w", "temp">>
      [] p = "/w/backup.json" -> <<"/", "w", "backup.json">>

\* the working directory of the process
cwd == <<"/", "w">>

\* the segments without "." and with each ".." applied to what precedes it
RECURSIVE normalise(_, _)
normalise(done, rest) ==
    IF rest = <<>>
    THEN done
    ELSE IF Head(rest) = "."
         THEN normalise(done, Tail(rest))
         ELSE IF Head(rest) = ".."
              THEN normalise(SubSeq(done, 1, Len(done) - 1), Tail(rest))
              ELSE normalise(Append(done, Head(rest)), Tail(rest))

\* Path(p).resolve(): absolute, without redundant segments
resolve(p) ==
    LET s == Segments(p) IN
    normalise(<<>>, IF s[1] = "/" THEN s ELSE cwd \o s)

\* the path string of the resolved path
Canonical(p) == CHOOSE q \in RawPaths : Segments(q) = resolve(p)

\* an identity that keeps the path as it was given
ConfigFileRaw(p) == [path |-> p, filename |-> Segments(p)[Len(Segments(p))]]

\* ConfigFile(p): the canonical path and the file name derived from it
ConfigFile(p) ==
    LET path == Canonical(p) IN
    [path |-> path, filename |-> Segments(path)[Len(Segments(path))]]

\* ConfigFile.__eq__ and __hash__: by the canonical path alone
eq(a, b) == a.path = b.path
hash(a) == a.path

\* file in d, for a dict d keyed by ConfigFile: a key with the hash of file
\* that is equal to file
In(d, file) == \E k \in DOMAIN d : hash(k) = hash(file) /\ eq(k, file)

\* d[file]
Get(d, file) == d[CHOOSE k \in DOMAIN d : hash(k) = hash(file) /\ eq(k, file)]

\* ConfigFile.SUPPORTED_CONFIG_FILES and str.endswith
SUPPORTED_CONFIG_FILES == {".json", ".toml", ".yaml"}

Suffix(p) ==
    CASE p = "/w/notes.txt" -> ".txt"
      [] p = "/w/temp" -> ""
      [] OTHER -> ".json"

endswith(p, suffixes) == Suffix(p) \in suffixes

(***************************************************************************)
(* ConfigFileEventHandler: on_modified runs on the observer's thread,      *)
(* _trigger_processing on the timer's thread.  The swap of the pending set *)
(* is one step (it holds the lock); each round of the loop over the batch  *)
(* is one step.                                                            *)
(***************************************************************************)
\* the reload callbacks of the callers: one returns, one raises
ReloadCallbacks == {"on_reload", "on_reload_fails"}

Fails(callback) == callback = "on_reload_fails"

\* the paths under which a caller names the files it registers
RegisteredAs == {"/w/config.json", "config.json", "/w/./config.json", "/w/config2.json"}

\* the directories of /w; one of them has a name that ends like a
\* configuration file
Directories == {"/w/temp", "/w/backup.json"}

\* the events of the directory /w: two configuration files, a text file
\* and two subdirectories
Events == {[src_path |-> p, is_directory |-> p \in Directories] :
              p \in {"/w/config.json", "/w/config2.json", "/w/notes.txt"} \cup Directories}

\* what a writer leaves in a file: a tree, or text that does not parse
Written_files == {Regular(Tree(v, "a")) : v \in Contents} \cup {Corrupt}

\* an is_alive that is false for every timer
isAliveNever(t) == FALSE

\* Timer.is_alive(): from start() until the thread has left its function
is_alive(t) == t \in {"waiting", "running"}

\* an add_watch_file that registers nothing
addNothing(d, file, callback) == d

add_watch_file(d, file, callback) ==
    IF In(d, file)
    THEN d
    ELSE [k \in DOMAIN d \cup {file} |-> IF k = file THEN callback ELSE d[k]]

AddWatchFile(p, callback) ==
    /\ watch_files' = add_watch_file(watch_files, ConfigFile(p), callback)
    /\ lastOp' = Op("add_watch_file", "", p, "", NoValue, <<>>,
                    In(watch_files, ConfigFile(p)), "ok")
    /\ calls' = <<>>
    /\ UNCHANGED <<pending_events, timer, files, reloads, clock, checked>>
    /\ UNCHANGED <<value, subscribers, disk, pce_root_model>>
    /\ UNCHANGED registry

\* no round of the batch has raised
NoFailure == \A i \in DOMAIN reloads : reloads[i].outcome \in {"reloaded", "not watched"}

\* on_modified without the return for directories
ignoredBySuffix(event) == ~endswith(event.src_path, SUPPORTED_CONFIG_FILES)

\* the two early returns of on_modified
ignored(event) ==
    \/ event.is_directory
    \/ ~endswith(event.src_path, SUPPORTED_CONFIG_FILES)

\* on_modified: the pending set and the timer that it leaves, and the
\* branch that it took
on_modified(pending, t, c, event) ==
    IF ignored(event)
    THEN [pending_events |-> pending, timer |-> t, clock |-> c, result |-> "ignored"]
    ELSE IF t = "None" \/ ~is_alive(t)
         THEN [pending_events |-> pending \cup {event.src_path}, timer |-> "waiting",
               clock |-> [c EXCEPT !.armed = 0, !.quiet = 0], result |-> "armed"]
         ELSE [pending_events |-> pending \cup {event.src_path}, timer |-> t,
               clock |-> [c EXCEPT !.quiet = 0], result |-> "pending"]

\* lastOp keeps the path, the branch, and whether the event was accepted
\* after a batch that had raised and was over
OnModified(event) ==
    LET r == on_modified(pending_events, timer, clock, event) IN
    /\ pending_events' = r.pending_events
    /\ timer' = r.timer
    /\ lastOp' = Op("on_modified", "", event.src_path, "", NoValue, <<>>,
                    r.result # "ignored" /\ ~NoFailure /\ timer \in {"finished", "waiting"},
                    r.result)
    /\ clock' = r.clock
    /\ calls' = <<>>
    /\ UNCHANGED <<watch_files, files, reloads, checked>>
    /\ UNCHANGED <<value, subscribers, disk, pce_root_model>>
    /\ UNCHANGED registry

\* the delay has passed: _trigger_processing takes the pending set
TimerFires ==
    /\ timer = "waiting"
    /\ files' = pending_events
    /\ pending_events' = {}
    /\ timer' = "running"
    /\ reloads' = <<>>
    /\ UNCHANGED <<watch_files, clock, checked>>
    /\ UNCHANGED <<value, subscribers, lastOp, calls, disk, pce_root_model>>
    /\ UNCHANGED registry

Reload(file, outcome, callback, tree) ==
    [path |-> file, outcome |-> outcome, callback |-> callback, tree |-> tree]

\* for file in files: the paths still to walk after file
Rest(batch, file) == batch \ {file}

\* one round of the loop of _trigger_processing; an exception of
\* read_config or of the callback ends the thread
ProcessFile(file) ==
    /\ timer = "running"
    /\ file \in files
    /\ files' = Rest(files, file)
    /\ LET f == ConfigFile(file) IN
       IF ~In(watch_files, f)
       THEN /\ reloads' = Append(reloads, Reload(file, "not watched", "", NoTree))
            /\ UNCHANGED timer
       ELSE LET callback == Get(watch_files, f)
                r == read_config(disk, f.path)
            IN  IF r.result # "ok"
                THEN /\ reloads' = Append(reloads, Reload(file, r.result, callback, NoTree))
                     /\ timer' = "finished"
                ELSE IF Fails(callback)
                     THEN /\ reloads' = Append(reloads,
                                              Reload(file, "CallbackError", callback, r.tree))
                          /\ timer' = "finished"
                     ELSE /\ reloads' = Append(reloads,
                                              Reload(file, "reloaded", callback, r.tree))
                          /\ UNCHANGED timer
    /\ UNCHANGED <<watch_files, pending_events, clock, checked>>
    /\ UNCHANGED <<value, subscribers, lastOp, calls, disk, pce_root_model>>
    /\ UNCHANGED registry

\* the loop is over: the timer's thread ends
BatchEnds ==
    /\ timer = "running"
    /\ files = {}
    /\ timer' = "finished"
    /\ UNCHANGED <<watch_files, pending_events, files, reloads, clock, checked>>
    /\ UNCHANGED <<value, subscribers, lastOp, calls, disk, pce_root_model>>
    /\ UNCHANGED registry

\* another process writes a configuration file
WriteFile(p, content) ==
    /\ disk' = [disk EXCEPT ![p] = content]
    /\ UNCHANGED <<watcher, registry>>
    /\ UNCHANGED <<value, subscribers, lastOp, calls, pce_root_model>>

NextWatcher ==
    \/ \E p \in RegisteredAs, callback \in ReloadCallbacks : AddWatchFile(p, callback)
    \/ \E event \in Events : OnModified(event)
    \/ TimerFires
    \/ \E file \in files : ProcessFile(file)
    \/ BatchEnds
    \/ \E p \in Paths, content \in Written_files : WriteFile(p, content)

SpecWatcher == Init /\ [][NextWatcher]_vars

\* the handler while no other process writes the files: /w/config.json
\* parses, /w/config2.json cannot be read
NextEvents ==
    \/ \E p \in RegisteredAs, callback \in ReloadCallbacks : AddWatchFile(p, callback)
    \/ \E event \in Events : OnModified(event)
    \/ TimerFires
    \/ \E file \in files : ProcessFile(file)
    \/ BatchEnds

SpecEvents == Init /\ [][NextEvents]_vars

(***************************************************************************)
(* The handler in time.  A Timer started with the delay d runs its         *)
(* function when d seconds have passed since start(); time passes in steps *)
(* of one second, and not beyond the moment at which a waiting timer is    *)
(* due.                                                                    *)
(***************************************************************************)
\* the delays that callers give to the constructor
Delays == {1, 2}

\* handler = ConfigFileEventHandler(delay), made while no timer of the
\* handler before it is alive
NewHandler(delay) ==
    /\ timer \in {"None", "finished"}
    /\ watch_files' = <<>>
    /\ pending_events' = {}
    /\ timer' = "None"
    /\ files' = {}
    /\ reloads' = <<>>
    /\ clock' = ConfigFileEventHandlerInit(delay)
    /\ checked' = ""
    /\ lastOp' = Op("ConfigFileEventHandler", "", "", "", NoValue, <<>>, FALSE, "ok")
    /\ calls' = <<>>
    /\ UNCHANGED <<value, subscribers, disk, pce_root_model>>
    /\ UNCHANGED registry

\* Timer(self._delay, self._trigger_processing): the timer is due
Due == timer = "waiting" /\ clock.armed >= clock.delay

\* a second passes
Tick ==
    /\ ~Due
    /\ clock' = [clock EXCEPT !.armed = IF timer = "waiting" THEN @ + 1 ELSE @,
                              !.quiet = IF @ < MaxTime THEN @ + 1 ELSE @]
    /\ UNCHANGED <<watch_files, pending_events, timer, files, reloads, checked>>
    /\ UNCHANGED <<value, subscribers, lastOp, calls, disk, pce_root_model>>
    /\ UNCHANGED registry

NextTimed ==
    \/ \E delay \in Delays : NewHandler(delay)
    \/ \E p \in {"/w/config.json", "/w/config2.json"} : AddWatchFile(p, "on_reload")
    \/ \E event \in Events : OnModified(event)
    \/ Tick
    \/ Due /\ TimerFires
    \/ \E file \in files : ProcessFile(file)
    \/ BatchEnds

SpecTimed == Init /\ [][NextTimed]_vars

(***************************************************************************)
(* ObserverManager: one ConfigFileEventHandler for each watched directory, *)
(* scheduled in one Observer.  The registrations of all handlers are kept  *)
(* in watch_files: the handler of a directory holds the files of that      *)
(* directory.  pending_events, timer, files and reloads are those of the   *)
(* handler of /w, the directory whose events are modelled.                 *)
(***************************************************************************)
\* the path string of a directory given by its segments
DirName(segments) ==
    CASE segments = <<"/", "w">> -> "/w"
      [] segments = <<"/", "w", "temp">> -> "/w/temp"

\* ConfigFile.folder: the directory of the canonical path
folder(file) ==
    LET s == Segments(file.path) IN DirName(SubSeq(s, 1, Len(s) - 1))

\* the registrations that the handler of the directory holds
WatchFilesOf(d, dir) ==
    LET keys == {k \in DOMAIN d : folder(k) = dir} IN [k \in keys |-> d[k]]

\* a remove_watch_file that removes nothing
removeNothing(d, file) == d

remove_watch_file(d, file) ==
    IF In(d, file)
    THEN LET key == CHOOSE k \in DOMAIN d : hash(k) = hash(file) /\ eq(k, file)
         IN  [k \in DOMAIN d \ {key} |-> d[k]]
    ELSE d

\* ObserverManager.__new__: cls._instance is the object that the
\* constructions return; the objects are numbered as they are created, 0 is
\* None
new(m) == IF m.instance = 0 THEN [m EXCEPT !.instance = @ + 1] ELSE m

\* an __init__ that does not look at _is_init
initUnguarded(m) ==
    [m EXCEPT !.observers = @ + 1,
              !.dir_to_event_handler = <<>>,
              !.dir_count = <<>>,
              !.scheduled = [dir \in Dirs |-> 0],
              !.is_init = TRUE]

\* ObserverManager.__init__: a new Observer, started, and empty dicts
init(m) ==
    IF m.is_init
    THEN m
    ELSE [m EXCEPT !.observers = @ + 1,
                   !.dir_to_event_handler = <<>>,
                   !.dir_count = <<>>,
                   !.scheduled = [dir \in Dirs |-> 0],
                   !.is_init = TRUE]

\* d[k] = v
Put(d, k, v) == [x \in DOMAIN d \cup {k} |-> IF x = k THEN v ELSE d[x]]

\* del d[k]
Del(d, k) == [x \in DOMAIN d \ {k} |-> d[x]]

\* Observer.schedule(event_handler, dir): one more handler gets the events
\* of the directory
schedule(scheduled, dir) == [scheduled EXCEPT ![dir] = @ + 1]

\* an unschedule that accepts the event handler and returns
unscheduleReturns(scheduled, watch) == [scheduled |-> scheduled, result |-> "ok"]

\* Observer.unschedule(watch) looks its argument up among the watches that
\* schedule returned; unwatch passes the event handler, which is none of them
unschedule(scheduled, watch) == [scheduled |-> scheduled, result |-> "KeyError"]

\* the if-branch of watch: the directory has a handler
watchIf(m, d, file, callback) ==
    LET dir == folder(file) IN
    [manager |-> [m EXCEPT !.dir_count = Put(@, dir, @[dir] + 1)],
     watch_files |-> add_watch_file(d, file, callback),
     created |-> FALSE]

\* the else-branch of watch: a new handler that holds the file, count 1
watchElse(m, d, file, callback) ==
    LET dir == folder(file)
        others == {k \in DOMAIN d : folder(k) # dir}
        serial == IF dir \in DOMAIN m.dir_to_event_handler
                  THEN m.dir_to_event_handler[dir] + 1
                  ELSE 1
    IN  [manager |-> [m EXCEPT !.dir_to_event_handler = Put(@, dir, serial),
                               !.dir_count = Put(@, dir, 1),
                               !.scheduled = schedule(@, dir)],
         watch_files |-> add_watch_file([k \in others |-> d[k]], file, callback),
         created |-> TRUE]

\* ObserverManager.watch
watch(m, d, file, callback) ==
    IF folder(file) \in DOMAIN m.dir_to_event_handler
    THEN watchIf(m, d, file, callback)
    ELSE watchElse(m, d, file, callback)

\* ObserverManager.unwatch
unwatch(m, d, file) ==
    LET dir == folder(file) IN
    IF dir \notin DOMAIN m.dir_to_event_handler
    THEN [manager |-> m, watch_files |-> d, result |-> "ok"]
    ELSE LET removed == remove_watch_file(d, file)
             counted == [m EXCEPT !.dir_count[dir] = @ - 1]
         IN  IF counted.dir_count[dir] = 0
             THEN LET u == unschedule(counted.scheduled, counted.dir_to_event_handler[dir])
                  IN  IF u.result # "ok"
                      THEN [manager |-> counted, watch_files |-> removed,
                            result |-> u.result]
                      ELSE [manager |-> [counted EXCEPT
                                           !.scheduled = u.scheduled,
                                           !.dir_to_event_handler = Del(@, dir),
                                           !.dir_count = Del(@, dir)],
                            watch_files |-> removed, result |-> "ok"]
             ELSE [manager |-> counted, watch_files |-> removed, result |-> "ok"]

\* ObserverManager.get_event_handler: the directory whose handler it is
get_event_handler(m, file) ==
    IF folder(file) \notin DOMAIN m.dir_to_event_handler THEN "None" ELSE folder(file)

\* is_file_observed: some handler holds a registration of the file
is_file_observed(m, d, file) ==
    /\ get_event_handler(m, file) # "None"
    /\ In(WatchFilesOf(d, get_event_handler(m, file)), file)

\* the paths under which the callers name the files they watch
WatchedAs == {"/w/config.json", "config.json", "/w/config2.json", "/w/temp/config.json"}

\* ObserverManager()
ObserverManager ==
    /\ manager' = init(new(manager))
    /\ lastOp' = Op("ObserverManager", "", "", "", NoValue, <<>>, manager.is_init, "ok")
    /\ calls' = <<>>
    /\ UNCHANGED <<value, subscribers, disk, pce_root_model, watcher, thread, stack>>

\* _dir_count.get(dir, 0)
CountOf(m, dir) == IF dir \in DOMAIN m.dir_count THEN m.dir_count[dir] ELSE 0

\* manager.watch(ConfigFile(p), callback); the handler that watch creates
\* for /w starts with nothing pending and no timer
Watch(p, callback) ==
    /\ manager.is_init
    /\ CountOf(manager, folder(ConfigFile(p))) < MaxCount
    /\ LET r == watch(manager, watch_files, ConfigFile(p), callback) IN
       /\ manager' = r.manager
       /\ watch_files' = r.watch_files
       /\ IF r.created /\ folder(ConfigFile(p)) = "/w"
          THEN /\ pending_events' = {}
               /\ timer' = "None"
               /\ files' = {}
               /\ reloads' = <<>>
               /\ clock' = ConfigFileEventHandlerInit(1)
               /\ checked' = ""
          ELSE UNCHANGED <<pending_events, timer, files, reloads, clock, checked>>
    /\ lastOp' = Op("watch", "", p, "", NoValue, <<>>,
                    is_file_observed(manager, watch_files, ConfigFile(p)), "ok")
    /\ calls' = <<>>
    /\ UNCHANGED <<value, subscribers, disk, pce_root_model, thread, stack>>

\* manager.unwatch(ConfigFile(p))
Unwatch(p) ==
    /\ manager.is_init
    /\ CountOf(manager, folder(ConfigFile(p))) > 0 - MaxDebt
    /\ LET r == unwatch(manager, watch_files, ConfigFile(p)) IN
       /\ manager' = r.manager
       /\ watch_files' = r.watch_files
       /\ lastOp' = Op("unwatch", "", p, "", NoValue, <<>>,
                       is_file_observed(manager, watch_files, ConfigFile(p)), r.result)
    /\ calls' = <<>>
    /\ UNCHANGED <<pending_events, timer, files, reloads, clock, checked>>
    /\ UNCHANGED <<value, subscribers, disk, pce_root_model, thread, stack>>

NextManager ==
    \/ ObserverManager
    \/ \E p \in WatchedAs, callback \in ReloadCallbacks : Watch(p, callback)
    \/ \E p \in WatchedAs : Unwatch(p)

SpecManager == Init /\ [][NextManager]_vars

\* the manager and the handler of /w together: the observer delivers the
\* events of /w to the handler while it is scheduled
NextUnwatch ==
    \/ ObserverManager
    \/ \E p \in {"/w/config.json", "/w/config2.json"} : Watch(p, "on_reload")
    \/ \E p \in {"/w/config.json", "/w/config2.json"} : Unwatch(p)
    \/ \E event \in Events : manager.scheduled["/w"] > 0 /\ OnModified(event)
    \/ TimerFires
    \/ \E file \in files : ProcessFile(file)
    \/ BatchEnds

SpecUnwatch == Init /\ [][NextUnwatch]_vars

(***************************************************************************)
(* The loop of _trigger_processing while another thread calls              *)
(* remove_watch_file.  Neither holds the lock for watch_files, so a round  *)
(* is two steps: the test `file in self.watch_files`, and the lookup       *)
(* self.watch_files[file] with the read and the call.                      *)
(***************************************************************************)
\* handler.remove_watch_file(ConfigFile(p)), from the caller's thread
RemoveWatchFile(p) ==
    /\ watch_files' = remove_watch_file(watch_files, ConfigFile(p))
    /\ lastOp' = Op("remove_watch_file", "", p, "", NoValue, <<>>,
                    In(watch_files, ConfigFile(p)), "ok")
    /\ calls' = <<>>
    /\ UNCHANGED <<pending_events, timer, files, reloads, clock, checked>>
    /\ UNCHANGED <<value, subscribers, disk, pce_root_model>>
    /\ UNCHANGED registry

\* file = ConfigFile(file); if file in self.watch_files
CheckFile(file) ==
    /\ timer = "running"
    /\ checked = ""
    /\ file \in files
    /\ files' = Rest(files, file)
    /\ IF ~In(watch_files, ConfigFile(file))
       THEN /\ reloads' = Append(reloads, Reload(file, "not watched", "", NoTree))
            /\ UNCHANGED checked
       ELSE /\ checked' = file
            /\ UNCHANGED reloads
    /\ UNCHANGED <<watch_files, pending_events, timer, clock>>
    /\ UNCHANGED <<value, subscribers, lastOp, calls, disk, pce_root_model>>
    /\ UNCHANGED registry

\* callback = self.watch_files[file]; callback(read_config(file)): the
\* subscript raises KeyError when the key is gone
LookupFile ==
    /\ timer = "running"
    /\ checked # ""
    /\ checked' = ""
    /\ LET f == ConfigFile(checked) IN
       IF ~In(watch_files, f)
       THEN /\ reloads' = Append(reloads, Reload(checked, "KeyError", "", NoTree))
            /\ timer' = "finished"
       ELSE LET callback == Get(watch_files, f)
                r == read_config(disk, f.path)
            IN  IF r.result # "ok"
                THEN /\ reloads' = Append(reloads, Reload(checked, r.result, callback, NoTree))
                     /\ timer' = "finished"
                ELSE IF Fails(callback)
                     THEN /\ reloads' = Append(reloads,
                                              Reload(checked, "CallbackError", callback, r.tree))
                          /\ timer' = "finished"
                     ELSE /\ reloads' = Append(reloads,
                                              Reload(checked, "reloaded", callback, r.tree))
                          /\ UNCHANGED timer
    /\ UNCHANGED <<watch_files, pending_events, files, clock>>
    /\ UNCHANGED <<value, subscribers, lastOp, calls, disk, pce_root_model>>
    /\ UNCHANGED registry

NextRace ==
    \/ \E p \in {"/w/config.json", "/w/config2.json"} : AddWatchFile(p, "on_reload")
    \/ \E p \in {"/w/config.json", "/w/config2.json"} : RemoveWatchFile(p)
    \/ \E event \in Events : OnModified(event)
    \/ TimerFires
    \/ \E file \in files : CheckFile(file)
    \/ LookupFile
    \/ checked = "" /\ BatchEnds

SpecRace == Init /\ [][NextRace]_vars

\* watch as the interpreter runs it when several threads call it: a thread
\* can be suspended between the test of line 121 and the branch it chose.
\* Each thread makes one call.
WatchBegins(t, p, callback) ==
    /\ manager.is_init
    /\ thread[t].pc = "idle"
    /\ thread' = [thread EXCEPT ![t] =
                     [pc |-> IF folder(ConfigFile(p)) \in DOMAIN manager.dir_to_event_handler
                             THEN "if"
                             ELSE "else",
                      name |-> p, callback |-> callback]]
    /\ UNCHANGED <<value, subscribers, lastOp, calls, disk, pce_root_model, watcher,
                   manager, stack>>

WatchEnds(t) ==
    /\ thread[t].pc \in {"if", "else"}
    /\ LET file == ConfigFile(thread[t].name)
           r == IF thread[t].pc = "if"
                THEN watchIf(manager, watch_files, file, thread[t].callback)
                ELSE watchElse(manager, watch_files, file, thread[t].callback)
       IN  /\ manager' = r.manager
           /\ watch_files' = r.watch_files
           /\ IF r.created /\ folder(file) = "/w"
              THEN /\ pending_events' = {}
                   /\ timer' = "None"
                   /\ files' = {}
                   /\ reloads' = <<>>
                   /\ clock' = ConfigFileEventHandlerInit(1)
                   /\ checked' = ""
              ELSE UNCHANGED <<pending_events, timer, files, reloads, clock, checked>>
    /\ thread' = [thread EXCEPT ![t].pc = "done"]
    /\ lastOp' = Op("watch", "", thread[t].name, "", NoValue, <<>>,
                    is_file_observed(manager, watch_files, ConfigFile(thread[t].name)), "ok")
    /\ calls' = <<>>
    /\ UNCHANGED <<value, subscribers, disk, pce_root_model, stack>>

NextConcurrent ==
    \/ ObserverManager
    \/ \E t \in Threads, p \in WatchedAs, callback \in ReloadCallbacks :
          WatchBegins(t, p, callback)
    \/ \E t \in Threads : WatchEnds(t)

SpecConcurrent == Init /\ [][NextConcurrent]_vars

(***************************************************************************)
(* Callbacks that call back into a model.  __setattr__ calls each callback *)
(* from inside its for loop, so a write made by a callback runs, with its  *)
(* own loop, before the outer loop goes on: the loops in progress form a   *)
(* stack, one frame per __setattr__ that is notifying.                     *)
(***************************************************************************)
\* the callbacks: on_field_change only counts; _on_debug_change writes a
\* field of another model when it is given "b" (Application._on_debug_change:
\* if enabled: self.config.log.level = "DEBUG"); normalise writes the field
\* it is notified for back to "a"; once unsubscribes itself from the field;
\* enlist subscribes on_field_change to the field
Reentrant == {"on_field_change", "_on_debug_change", "normalise", "once", "enlist"}

\* the fields that are subscribed to, and the callbacks given for each
Fields == {<<"C", "name">>, <<"K1", "city">>}
Given(f) == IF f[1] = "C" THEN Reentrant ELSE {"on_field_change", "normalise"}

\* the number of these callbacks that are registered
Listening(subs) ==
    Cardinality({t \in Fields \X Reentrant : Has(subs[t[1][1]], t[1][2], t[2])})

\* the loop of one __setattr__: the field, the value given to the callbacks,
\* the callbacks the set iterator has not yet returned and the size of the
\* set when the iterator was made
Frame(m, name, v, order) ==
    [model |-> m, name |-> name, val |-> v, todo |-> order, size |-> Len(order)]

\* what callback(value) does inside the loop of frame f
effect(cb, f) ==
    CASE cb = "_on_debug_change" /\ f.val = Str("b") ->
            [kind |-> "write", model |-> "K1", name |-> "city", val |-> Str("b"), cb |-> ""]
      [] cb = "normalise" /\ f.val # Str("a") ->
            [kind |-> "write", model |-> f.model, name |-> f.name, val |-> Str("a"), cb |-> ""]
      [] cb = "once" ->
            [kind |-> "unsubscribe", model |-> f.model, name |-> f.name, val |-> NoValue,
             cb |-> "once"]
      [] cb = "enlist" ->
            [kind |-> "subscribe", model |-> f.model, name |-> f.name, val |-> NoValue,
             cb |-> "on_field_change"]
      [] OTHER ->
            [kind |-> "none", model |-> "", name |-> "", val |-> NoValue, cb |-> ""]

\* a dispatch that keeps a lock while it calls the callbacks
blockedByDispatch(s) == s # <<>>

\* __setattr__ takes no lock, so a write made inside a callback never waits
blocked(s) == FALSE

\* __setattr__ up to its loop: the checks, the assignment and the early
\* return of an unchanged value
assign(val, m, name, v) ==
    IF name \notin model_fields(class[m])
    THEN [value |-> val, result |-> "AttributeError"]
    ELSE IF TypeMismatch(v, val[m][name])
         THEN [value |-> val, result |-> "TypeError"]
         ELSE [value |-> [val EXCEPT ![m][name] = v],
               result |-> IF ValueEq(val[m][name], v) THEN "ok" ELSE "notify"]

\* a write by the program, outside any callback
WriteBegins(m, name, v) ==
    /\ stack = <<>>
    /\ LET a == assign(value, m, name, v) IN
       /\ value' = a.value
       /\ calls' = <<>>
       /\ IF a.result = "notify"
          THEN /\ subscribers' = [subscribers EXCEPT ![m] = Touch(@, name)]
               /\ \E order \in Orders(Listeners(subscribers[m], name)) :
                     stack' = <<Frame(m, name, v, order)>>
               /\ lastOp' = Op("setattr", m, name, "", v, <<>>, FALSE, "notifying")
          ELSE /\ UNCHANGED <<subscribers, stack>>
               /\ lastOp' = Op("setattr", m, name, "", v, <<>>, FALSE, a.result)
    /\ UNCHANGED <<disk, pce_root_model, manager, thread>>
    /\ UNCHANGED watcher

\* one turn of the innermost loop.  The set iterator raises RuntimeError
\* (Set changed size during iteration) when the set has another size than
\* when the loop began; an exception leaves every __setattr__ in progress.
\* At the end of the set the __setattr__ returns to the callback that made
\* the write, or to the program.
Dispatch ==
    /\ stack # <<>>
    /\ LET top == stack[Len(stack)]
           below == SubSeq(stack, 1, Len(stack) - 1)
       IN  IF Cardinality(Listeners(subscribers[top.model], top.name)) # top.size
           THEN /\ stack' = <<>>
                /\ lastOp' = [lastOp EXCEPT !.result = "RuntimeError"]
                /\ UNCHANGED <<value, subscribers, calls>>
           ELSE IF top.todo = <<>>
           THEN /\ stack' = below
                /\ lastOp' = IF below = <<>> THEN [lastOp EXCEPT !.result = "ok"] ELSE lastOp
                /\ UNCHANGED <<value, subscribers, calls>>
           ELSE LET cb == Head(top.todo)
                    e == effect(cb, top)
                    rest == Append(below, [top EXCEPT !.todo = Tail(@)])
                IN  /\ calls' = Append(calls, [cb |-> cb, arg |-> top.val,
                                               model |-> top.model, name |-> top.name])
                    /\ UNCHANGED lastOp
                    /\ CASE e.kind = "write" ->
                              /\ ~blocked(stack)
                              /\ LET a == assign(value, e.model, e.name, e.val) IN
                                 /\ value' = a.value
                                 /\ IF a.result = "notify"
                                    THEN /\ subscribers' = [subscribers EXCEPT
                                                              ![e.model] = Touch(@, e.name)]
                                         /\ \E order \in Orders(Listeners(subscribers[e.model],
                                                                          e.name)) :
                                               stack' = Append(rest, Frame(e.model, e.name,
                                                                           e.val, order))
                                    ELSE /\ stack' = rest
                                         /\ UNCHANGED subscribers
                         [] e.kind = "unsubscribe" ->
                              /\ subscribers' = [subscribers EXCEPT ![e.model] =
                                                    unsubscribe(e.model, @, e.name, e.cb).reg]
                              /\ stack' = rest
                              /\ UNCHANGED value
                         [] e.kind = "subscribe" ->
                              /\ subscribers' = [subscribers EXCEPT ![e.model] =
                                                    subscribe(e.model, @, e.name, e.cb).reg]
                              /\ stack' = rest
                              /\ UNCHANGED value
                         [] OTHER ->
                              /\ stack' = rest
                              /\ UNCHANGED <<value, subscribers>>
    /\ UNCHANGED <<disk, pce_root_model, manager, thread>>
    /\ UNCHANGED watcher

NextReentrant ==
    \/ \E f \in Fields : \E cb \in Given(f) :
          /\ stack = <<>>
          /\ Listening(subscribers) < MaxListeners
          /\ Subscribe(f[1], f[2], cb)
    \/ \E v \in {Str("a"), Str("b")} : WriteBegins("C", "name", v)
    \/ Dispatch

SpecReentrant == Init /\ [][NextReentrant]_vars

\* the thread that runs a loop goes on running it
SpecDispatch == SpecReentrant /\ WF_vars(Dispatch)

(***************************************************************************)
(* Properties.  Those that compare the state before a call with the call's *)
(* effect are properties of the steps; lastOp' is the call of the step.    *)
(***************************************************************************)
\* the number of invocations of a callback in a sequence of invocations
Invocations(cs, cb) == Cardinality({i \in DOMAIN cs : cs[i].cb = cb})

\* the callbacks registered for a field in a registry that may lack the key
RegisteredFor(d, field) == IF field \in DOMAIN d THEN d[field] ELSE {}

\* the step is a write of a value of the field's current runtime type to a
\* declared field (neither of the two errors is raised)
IsWrite ==
    /\ lastOp'.op = "setattr"
    /\ lastOp'.result \in {"ok", "CallbackError"}

\* C1: a write of a value different from the current one invokes every
\* subscribed callback with the new value, never more than once, and exactly
\* once by the time the write returns; a write of a value equal to the
\* current one invokes no callback.
C1_NotifyOnChangeStep ==
    IsWrite =>
        LET m == lastOp'.model
            f == lastOp'.name
            v == lastOp'.val
        IN  IF value[m][f] = v
            THEN calls' = <<>>
            ELSE /\ \A i \in DOMAIN calls' : calls'[i].arg = v
                 /\ \A cb \in RegisteredFor(subscribers[m], f) :
                       /\ Invocations(calls', cb) <= 1
                       /\ lastOp'.result = "ok" => Invocations(calls', cb) = 1

C2_OnlyFieldCallbacksStep ==
    (IsWrite /\ value[lastOp'.model][lastOp'.name] # lastOp'.val) =>
        LET regs == RegisteredFor(subscribers[lastOp'.model], lastOp'.name) IN
        /\ \A i \in DOMAIN calls' : calls'[i].cb \in regs
        /\ lastOp'.result = "ok" =>
              /\ {calls'[i].cb : i \in DOMAIN calls'} = regs
              /\ Len(calls') = Cardinality(regs)

C3_TypeConstraintStep ==
    /\ ( /\ lastOp'.op = "setattr"
         /\ lastOp'.name \in model_fields(class[lastOp'.model])
         /\ ~Accepts(annotation(lastOp'.name), lastOp'.val) )
       => (lastOp'.result = "TypeError" /\ value' = value /\ calls' = <<>>)
    /\ \A m \in Models : \A f \in DOMAIN value'[m] :
          Accepts(annotation(f), value'[m][f])

C3_TypeConstraint == [][C3_TypeConstraintStep]_vars

\* C4: subscribe and a write with a name that is not a declared field fail
\* and change nothing: no registry entry, no stored value, no invocation.
C4_UndeclaredStep ==
    ( /\ lastOp'.op \in {"subscribe", "setattr"}
      /\ lastOp'.name \notin model_fields(class[lastOp'.model]) )
    => /\ lastOp'.result = (IF lastOp'.op = "subscribe" THEN "ValueError"
                                                       ELSE "AttributeError")
       /\ subscribers' = subscribers
       /\ value' = value
       /\ calls' = <<>>

C4_Undeclared == [][C4_UndeclaredStep]_vars

\* subscribe with a wrong name has failed and the registry has no such key
C4_Witness ==
    /\ lastOp.op = "subscribe" /\ lastOp.name = Undeclared
    /\ lastOp.result = "ValueError"
    /\ Undeclared \notin DOMAIN subscribers[lastOp.model]
    /\ subscribers[lastOp.model] # <<>>

\* C5: unsubscribe with a name that is not a declared field fails with an
\* unknown-field error.
C5_UnsubscribeUndeclaredFails ==
    ( /\ lastOp.op = "unsubscribe"
      /\ lastOp.name \notin model_fields(class[lastOp.model]) )
    => lastOp.result = "ValueError"

\* C6: subscribe of a callback that is already registered for the field
\* changes nothing, so that a later change of the field invokes it once; one
\* unsubscribe removes it, so that a later change invokes it zero times.
C6_IdempotentStep ==
    /\ (lastOp'.op = "subscribe" /\ lastOp'.result = "ok") =>
          /\ Has(subscribers'[lastOp'.model], lastOp'.name, lastOp'.cb)
          /\ Has(subscribers[lastOp'.model], lastOp'.name, lastOp'.cb) =>
                subscribers' = subscribers
    /\ (lastOp'.op = "unsubscribe" /\ lastOp'.result = "ok") =>
          ~Has(subscribers'[lastOp'.model], lastOp'.name, lastOp'.cb)
    /\ ( /\ lastOp'.op = "setattr" /\ lastOp'.result = "ok"
         /\ value[lastOp'.model][lastOp'.name] # lastOp'.val ) =>
          \A cb \in Callbacks :
             Invocations(calls', cb) =
                IF Has(subscribers[lastOp'.model], lastOp'.name, cb) THEN 1 ELSE 0

C6_Idempotent == [][C6_IdempotentStep]_vars

\* subscribe has returned for a callback that was registered already, and
\* the set of the field holds it (once) beside the other callback
C6_Witness ==
    /\ lastOp.op = "subscribe" /\ lastOp.result = "ok" /\ lastOp.had
    /\ lastOp.model = "C" /\ lastOp.name = "name" /\ lastOp.cb = "on_field_change"
    /\ subscribers["C"]["name"] = {"on_field_change", "on_name_change"}

\* C7: unsubscribe(F, cb) removes the pair (F, cb) and no other: the other
\* callbacks of F and the registrations of cb for other fields stay, and a
\* later write invokes registered callbacks only; unsubscribe_multiple
\* removes the listed pairs and leaves the pairs it does not list.
Listed(field, cb) ==
    \/ lastOp'.op = "unsubscribe" /\ lastOp'.name = field /\ lastOp'.cb = cb
    \/ /\ lastOp'.op = "unsubscribe_multiple"
       /\ \E i \in DOMAIN lastOp'.entries : lastOp'.entries[i] = <<field, cb>>

C7_UnsubscribeFrameStep ==
    /\ lastOp'.op \in {"unsubscribe", "unsubscribe_multiple"} =>
          /\ \A m \in Models : m # lastOp'.model => subscribers'[m] = subscribers[m]
          /\ \A field \in Names, cb \in Callbacks :
                LET was == Has(subscribers[lastOp'.model], field, cb)
                    is == Has(subscribers'[lastOp'.model], field, cb)
                IN  IF Listed(field, cb)
                    THEN (is => was) /\ (lastOp'.result = "ok" => ~is)
                    ELSE is <=> was
    /\ lastOp'.op = "setattr" =>
          /\ \A i \in DOMAIN calls' :
                Has(subscribers[lastOp'.model], lastOp'.name, calls'[i].cb)
          /\ \A m \in Models : m # lastOp'.model => subscribers'[m] = subscribers[m]
          /\ \A field \in Names, cb \in Callbacks :
                Has(subscribers'[lastOp'.model], field, cb)
                   <=> Has(subscribers[lastOp'.model], field, cb)

C7_UnsubscribeFrame == [][C7_UnsubscribeFrameStep]_vars

\* unsubscribe_multiple has removed two registered pairs of on_field_change
\* and the other callback of the field name is still registered
C7_Witness ==
    /\ lastOp.op = "unsubscribe_multiple" /\ lastOp.result = "ok" /\ lastOp.had
    /\ lastOp.model = "C" /\ Len(lastOp.entries) = 2
    /\ \A i \in DOMAIN lastOp.entries : lastOp.entries[i][2] = "on_field_change"
    /\ subscribers["C"] = [f \in {"name", "tags"} |->
                              IF f = "name" THEN {"on_name_change"} ELSE {}]

\* C8: when a callback of a field raises during the notification of a
\* change, every other callback registered for the field is still invoked
\* for that change.
C8_FaultIsolation ==
    (lastOp.op = "setattr" /\ lastOp.result = "CallbackError") =>
        \A cb \in RegisteredFor(subscribers[lastOp.model], lastOp.name) :
            Invocations(calls, cb) = 1

\* C9: the registry belongs to the instance: a call on one instance leaves
\* the registry and the fields of every other instance as they were, and a
\* write to an instance invokes only callbacks registered on that instance,
\* whatever is registered on instances of the same class or of a subclass.
C9_PerInstanceStep ==
    /\ \A m \in Models :
          m # lastOp'.model =>
             subscribers'[m] = subscribers[m] /\ value'[m] = value[m]
    /\ lastOp'.op = "setattr" =>
          \A i \in DOMAIN calls' :
             Has(subscribers[lastOp'.model], lastOp'.name, calls'[i].cb)

C9_PerInstance == [][C9_PerInstanceStep]_vars

\* on_field_change is registered for city on K1 and on K2 but not on S, and a
\* changing write of city on S has invoked the callback of S only
C9_Witness ==
    /\ lastOp.op = "setattr" /\ lastOp.result = "ok"
    /\ lastOp.model = "S" /\ lastOp.name = "city"
    /\ subscribers["K1"] = [f \in {"city"} |-> {"on_field_change"}]
    /\ subscribers["K2"] = [f \in {"city"} |-> {"on_field_change"}]
    /\ subscribers["S"] = [f \in {"city"} |-> {"on_name_change"}]
    /\ calls = <<[cb |-> "on_name_change", arg |-> lastOp.val]>>

\* the step stores another model object in a field that holds a model object
IsReplacement ==
    /\ IsWrite
    /\ IsRef(lastOp'.val)
    /\ IsRef(value[lastOp'.model][lastOp'.name])
    /\ lastOp'.val.repr # value[lastOp'.model][lastOp'.name].repr

\* no subscription moves: the registry of every instance other than the one
\* written is as before, the instance written gains no callback, and a write
\* invokes only callbacks registered on the instance written
NoTransferStep ==
    lastOp'.op = "setattr" =>
        /\ \A field \in Names, cb \in Callbacks :
              Has(subscribers'[lastOp'.model], field, cb)
                 <=> Has(subscribers[lastOp'.model], field, cb)
        /\ \A m \in Models : m # lastOp'.model => subscribers'[m] = subscribers[m]
        /\ \A i \in DOMAIN calls' :
              Has(subscribers[lastOp'.model], lastOp'.name, calls'[i].cb)

\* C10 as stated: the replacement of the nested model of a field by a new
\* model object invokes the subscribers of the field once with the new
\* object, and transfers no subscription.
C10_ReplacementNotifiesStep ==
    /\ (IsReplacement /\ lastOp'.result = "ok") =>
          \A cb \in RegisteredFor(subscribers[lastOp'.model], lastOp'.name) :
             /\ Invocations(calls', cb) = 1
             /\ \A i \in DOMAIN calls' : calls'[i].arg = lastOp'.val
    /\ NoTransferStep

EqualModels(a, b) ==
    class[a] = class[b] /\ value[a] = value[b] /\ subscribers[a] = subscribers[b]

\* C10 amended: the replacement by a new model object that does not compare
\* equal to the old one (class, field values, registry) invokes the
\* subscribers of the field once with the new object; the replacement by a
\* new object that compares equal stores it and invokes nothing; neither
\* transfers a subscription.
C10_UnequalReplacementNotifiesStep ==
    /\ IsReplacement =>
          /\ value'[lastOp'.model][lastOp'.name] = lastOp'.val
          /\ IF EqualModels(value[lastOp'.model][lastOp'.name].repr, lastOp'.val.repr)
             THEN calls' = <<>>
             ELSE lastOp'.result = "ok" =>
                    \A cb \in RegisteredFor(subscribers[lastOp'.model], lastOp'.name) :
                       /\ Invocations(calls', cb) = 1
                       /\ \A i \in DOMAIN calls' : calls'[i].arg = lastOp'.val
    /\ NoTransferStep

C11_UniformUnsubscribe ==
    ( /\ lastOp.op = "unsubscribe"
      /\ lastOp.name \in model_fields(class[lastOp.model])
      /\ ~lastOp.had )
    => lastOp.result =
          unsubscribe(lastOp.model, [x \in {} |-> {}], lastOp.name, lastOp.cb).result

\* an entry of a mapping that names no declared field of the instance
BadEntries(m, field_callbacks) ==
    {i \in DOMAIN field_callbacks : field_callbacks[i][1] \notin model_fields(class[m])}

\* C12: subscribe_multiple and unsubscribe_multiple report the error of a
\* failing entry and skip no entry silently: a call that returns without an
\* error had no failing entry and has applied every entry.
C12_MultipleReportsFailures ==
    ( /\ lastOp.op \in {"subscribe_multiple", "unsubscribe_multiple"}
      /\ lastOp.result = "ok" )
    => /\ BadEntries(lastOp.model, lastOp.entries) = {}
       /\ \A i \in DOMAIN lastOp.entries :
             Has(subscribers[lastOp.model], lastOp.entries[i][1], lastOp.entries[i][2])
                <=> (lastOp.op = "subscribe_multiple")

\* the models of the tree under the root m: m and the models its fields hold
TreeOf(val, m) == {m} \cup {val[m][f].repr : f \in {g \in DOMAIN val[m] : IsRef(val[m][g])}}

\* C13: with auto-save enabled on a root bound to a file, every successful
\* write that changes a configuration field of the root or of a model of its
\* tree leaves the file holding the dump of the tree.
C13_AutoSaveStep ==
    ( /\ lastOp'.op = "setattr"
      /\ lastOp'.result = "ok"
      /\ lastOp'.model \in TreeOf(value, "R")
      /\ lastOp'.name \notin Bookkeeping
      /\ value' # value
      /\ value["R"]["py_cfg_events_auto_save"] = Bool(TRUE)
      /\ value["R"]["py_cfg_events_file_path"] # None )
    => disk'[value["R"]["py_cfg_events_file_path"].repr] = Regular(to_dict(value', "R"))

C13_AutoSave == [][C13_AutoSaveStep]_vars

\* the tree of the declared configuration fields of m with their current
\* values, a nested model as the tree of its own fields
RECURSIVE ConfigurationOf(_, _)
ConfigurationOf(val, m) ==
    [f \in model_fields(class[m]) \ Bookkeeping |->
        IF IsRef(val[m][f]) THEN ConfigurationOf(val, val[m][f].repr) ELSE val[m][f]]

\* C14: save_to_file with a path writes the dump to that path and to no
\* other file; without a path it writes the dump to the bound file and to
\* no other; without a path on a root without a bound file it raises the
\* missing-binding error and writes nothing.
C14_SaveToFileStep ==
    lastOp'.op = "save_to_file" =>
        LET file_path == lastOp'.val
            bound == value["R"]["py_cfg_events_file_path"]
            dump == Regular(ConfigurationOf(value, "R"))
        IN  /\ file_path # None =>
                 /\ lastOp'.result = "ok"
                 /\ disk' = [disk EXCEPT ![file_path.repr] = dump]
            /\ (file_path = None /\ bound # None) =>
                 /\ lastOp'.result = "ok"
                 /\ disk' = [disk EXCEPT ![bound.repr] = dump]
            /\ (file_path = None /\ bound = None) =>
                 /\ lastOp'.result = "ValueError"
                 /\ disk' = disk

C14_SaveToFile == [][C14_SaveToFileStep]_vars

\* a save to an explicit path has written the dump there, and the bound file
\* holds something else
C14_Witness ==
    /\ lastOp.op = "save_to_file"
    /\ lastOp.val = PathOf("/w/config2.json")
    /\ value["R"]["py_cfg_events_file_path"] = PathOf("/w/config.json")
    /\ disk["/w/config2.json"] = Regular(ConfigurationOf(value, "R"))
    /\ disk["/w/config.json"] # disk["/w/config2.json"]

C16_RootReferenceStep ==
    /\ \A c \in DOMAIN pce_root_model' : pce_root_model'[c] = c[1]
    /\ \A c \in DOMAIN pce_root_model \cap DOMAIN pce_root_model' :
          ~(lastOp'.op = "UIConfig" /\ lastOp'.model = c[1])
             => pce_root_model'[c] = pce_root_model[c]

FileOf(p) ==
    CASE p \in {"/w/config.json", "config.json", "/w/./config.json",
                "/w/temp/../config.json"} -> "config.json in /w"
      [] p = "/w/config2.json" -> "config2.json in /w"
      [] p \in {"/w/temp/config.json", "temp/config.json"} -> "config.json in /w/temp"
      [] OTHER -> p

\* the path strings that name configuration files
FilePaths == {p \in RawPaths : endswith(p, SUPPORTED_CONFIG_FILES)}

\* the round of the loop that the step made, when it made one
Walked == Len(reloads') = Len(reloads) + 1
Round == reloads'[Len(reloads')]

\* two identities are equal exactly when their canonical paths are equal,
\* which is when their paths name one file; equal identities have equal
\* hashes
IdentityLaw ==
    \A p, q \in FilePaths :
       /\ eq(ConfigFile(p), ConfigFile(q)) <=> (resolve(p) = resolve(q))
       /\ eq(ConfigFile(p), ConfigFile(q)) <=> (FileOf(p) = FileOf(q))
       /\ eq(ConfigFile(p), ConfigFile(q)) => hash(ConfigFile(p)) = hash(ConfigFile(q))

\* C17: two identities are equal exactly when their canonical paths are
\* equal, and equal identities have equal hashes; so a round of the batch
\* finds a registration exactly when one was made, under any path string,
\* for the file that the path of the event names.
C17_IdentityStep ==
    /\ IdentityLaw
    /\ Walked =>
          ( (Round.outcome # "not watched")
              <=> \E k \in DOMAIN watch_files : FileOf(k.path) = FileOf(Round.path) )

C17_Identity == [][C17_IdentityStep]_vars

\* the last registration was made under a relative path, and the batch has
\* found it for the absolute path of the event and reloaded the file
C17_Witness ==
    /\ lastOp.op = "add_watch_file"
    /\ lastOp.name = "config.json"
    /\ ~lastOp.had
    /\ \E i \in DOMAIN reloads :
          /\ reloads[i].path = "/w/config.json"
          /\ reloads[i].outcome = "reloaded"

\* C18: the events for a registered file that arrive while the timer waits
\* lead to exactly one reload of that file: the arrival of an event arms no
\* second timer, a batch walks no path twice, a round that calls a callback
\* calls the one registered for the file with the tree that the file holds
\* when the round runs, and when the timer's thread ends no registered file
\* that parses is left without its round.
C18_DebounceStep ==
    /\ ( /\ timer = "waiting"
         /\ pending_events' # pending_events
         /\ pending_events \subseteq pending_events' ) => timer' = "waiting"
    /\ Walked =>
          /\ \A i \in DOMAIN reloads : reloads[i].path # Round.path
          /\ Round.outcome \in {"reloaded", "CallbackError"} =>
                /\ disk[Canonical(Round.path)] = Regular(Round.tree)
                /\ In(watch_files, ConfigFile(Round.path))
                /\ Round.callback = Get(watch_files, ConfigFile(Round.path))
    /\ (timer = "running" /\ timer' = "finished") =>
          \A p \in files' :
             ~(In(watch_files, ConfigFile(p)) /\ disk[Canonical(p)].kind = "file")

C18_Debounce == [][C18_DebounceStep]_vars

\* C19: no accepted event is lost: while the path of an event for a
\* registered file is pending, and no round of the last batch has raised, a
\* timer is alive that will take it.
C19_NoEventLost ==
    (NoFailure /\ \E p \in pending_events : In(watch_files, ConfigFile(p)))
        => is_alive(timer)

\* C20: a failure of one round does not end the batch: when the timer's
\* thread ends, no registered file of the batch is left unwalked.
C20_BatchIsolationStep ==
    (timer = "running" /\ timer' = "finished")
        => \A p \in files' : ~In(watch_files, ConfigFile(p))

C20_BatchIsolation == [][C20_BatchIsolationStep]_vars
\* C21: a failure during a batch does not stop the watcher.  An event for
\* a configuration file that arrives when a batch has raised and its thread
\* has ended is taken into the pending set and arms a timer; and when the
\* thread of the batch that follows such an event ends, the file of the
\* event, if it is registered with a callback that returns and can be read,
\* has been reloaded.
C21_RecoveryStep ==
    /\ ( /\ lastOp'.op = "on_modified"
         /\ lastOp'.result # "ignored"
         /\ timer = "finished"
         /\ ~NoFailure ) =>
          /\ lastOp'.name \in pending_events'
          /\ lastOp'.result = "armed"
          /\ timer' = "waiting"
    /\ ( /\ timer = "running"
         /\ timer' = "finished"
         /\ lastOp.op = "on_modified"
         /\ lastOp.had
         /\ In(watch_files, ConfigFile(lastOp.name))
         /\ ~Fails(Get(watch_files, ConfigFile(lastOp.name)))
         /\ disk[Canonical(lastOp.name)].kind = "file" ) =>
          \E i \in DOMAIN reloads' :
             /\ reloads'[i].path = lastOp.name
             /\ reloads'[i].outcome = "reloaded"

C21_Recovery == [][C21_RecoveryStep]_vars

\* the paths are paths of non-directories with a supported extension
Supported(pending) ==
    \A p \in pending : p \notin Directories /\ Suffix(p) \in {".json", ".toml", ".yaml"}

\* C22: in every state the pending set holds only paths of non-directories
\* with a supported extension, and on_modified, called in that state with an
\* event for a directory or for a path with another extension, changes
\* neither the pending set nor the timer.
C22_Ignored ==
    /\ Supported(pending_events)
    /\ \A event \in Events :
          LET r == on_modified(pending_events, timer, clock, event) IN
          /\ Supported(r.pending_events)
          /\ (event.is_directory \/ ~Supported({event.src_path})) =>
                /\ r.pending_events = pending_events
                /\ r.timer = timer

\* an event for a directory named like a configuration file has arrived:
\* nothing is pending and no timer has been armed
C22_Witness ==
    /\ lastOp.op = "on_modified"
    /\ lastOp.name = "/w/backup.json"
    /\ pending_events = {}
    /\ timer = "None"

\* C23: every directory has at most one handler scheduled in the observer,
\* a handler is scheduled exactly when the reference count of the directory
\* is greater than 0, and no count is negative.
C23_OneWatch ==
    \A dir \in Dirs :
       /\ manager.scheduled[dir] <= 1
       /\ manager.scheduled[dir] = 1 <=> CountOf(manager, dir) > 0
       /\ CountOf(manager, dir) >= 0

\* C24: the reference count of every directory is the number of distinct
\* files registered on the handler of that directory.
C24_CountIsRegistrations ==
    \A dir \in Dirs :
       CountOf(manager, dir) = Cardinality(DOMAIN WatchFilesOf(watch_files, dir))

\* the files, by the table of which file each path names, that some handler
\* of the manager holds a registration for
Held(m, d) ==
    {FileOf(k.path) : k \in UNION {DOMAIN WatchFilesOf(d, dir) :
                                      dir \in DOMAIN m.dir_to_event_handler}}

\* C25: is_file_observed(f) is true exactly when some handler holds a
\* registration for the file f: it is true after watch(f, cb), false after
\* unwatch(f), and it becomes true for no file but the one that a watch
\* names, so it is false for a file never watched whatever else is watched.
C25_IsWatchedStep ==
    /\ lastOp'.op = "watch" =>
          is_file_observed(manager', watch_files', ConfigFile(lastOp'.name))
    /\ lastOp'.op = "unwatch" =>
          ~is_file_observed(manager', watch_files', ConfigFile(lastOp'.name))
    /\ \A p \in WatchedAs :
          /\ is_file_observed(manager', watch_files', ConfigFile(p))
                <=> FileOf(p) \in Held(manager', watch_files')
          /\ ( /\ is_file_observed(manager', watch_files', ConfigFile(p))
               /\ ~is_file_observed(manager, watch_files, ConfigFile(p)) ) =>
                /\ lastOp'.op = "watch"
                /\ FileOf(lastOp'.name) = FileOf(p)

C26_NoCallbackStep ==
    lastOp'.op = "unwatch" =>
       /\ FileOf(lastOp'.name) \notin Held(manager', watch_files')
       /\ (Walked /\ FileOf(Round.path) = FileOf(lastOp'.name)) =>
             /\ Round.outcome = "not watched"
             /\ Round.callback = ""

C26_NoCallback == [][C26_NoCallbackStep]_vars

\* the last file of /w was unwatched, and a batch that held its path has
\* walked it without a callback
C26_Witness ==
    /\ lastOp.op = "unwatch"
    /\ lastOp.had
    /\ lastOp.result = "KeyError"
    /\ lastOp.name = "/w/config.json"
    /\ timer = "finished"
    /\ reloads = <<Reload("/w/config.json", "not watched", "", NoTree)>>

\* C27: every construction returns the one instance, one observer is
\* started in the life of the process, and a construction that is not the
\* first changes neither the handlers, nor the counts, nor the
\* registrations.
C27_SingletonStep ==
    /\ manager'.instance <= 1
    /\ manager'.observers <= 1
    /\ lastOp'.op = "ObserverManager" =>
          /\ manager'.instance = 1
          /\ manager'.observers = 1
          /\ manager'.is_init
          /\ manager.instance # 0 =>
                /\ manager'.dir_to_event_handler = manager.dir_to_event_handler
                /\ manager'.dir_count = manager.dir_count
                /\ manager'.scheduled = manager.scheduled
                /\ watch_files' = watch_files

C27_Singleton == [][C27_SingletonStep]_vars

\* the manager has been constructed again while files were watched in both
\* directories
C27_Witness ==
    /\ lastOp.op = "ObserverManager"
    /\ lastOp.had
    /\ DOMAIN manager.dir_count = Dirs
    /\ Cardinality(DOMAIN watch_files) >= 2

\* the orders in which the calls of the threads can be executed one at a
\* time
Orders2 == {o \in [1..2 -> Threads] : o[1] # o[2]}

\* the manager and the registrations after the calls of the threads,
\* executed one at a time in the order o on a manager just constructed
OneAtATime(o) ==
    LET fresh == [manager EXCEPT !.dir_to_event_handler = <<>>,
                                 !.dir_count = <<>>,
                                 !.scheduled = [dir \in Dirs |-> 0]]
        first == watch(fresh, <<>>, ConfigFile(thread[o[1]].name), thread[o[1]].callback)
        second == watch(first.manager, first.watch_files,
                        ConfigFile(thread[o[2]].name), thread[o[2]].callback)
    IN  [manager |-> second.manager, watch_files |-> second.watch_files]

\* C28: the calls of watch made by two threads at the same time leave the
\* manager and the registrations as the two calls executed one at a time, in
\* one order or the other, leave them.
C28_Serialized ==
    (\A t \in Threads : thread[t].pc = "done") =>
       \E o \in Orders2 :
          OneAtATime(o) = [manager |-> manager, watch_files |-> watch_files]

\* C29: a handler has at most one live timer.  In every state in which a
\* timer has been started and its thread has not ended, on_modified, called
\* with an event for a configuration file, adds the path to the pending set
\* and starts no timer; it starts one only when no timer is live.
C29_OneTimer ==
    \A event \in Events :
       LET r == on_modified(pending_events, timer, clock, event) IN
       /\ r.result = "armed" => timer \in {"None", "finished"}
       /\ (timer \in {"waiting", "running"} /\ r.result # "ignored") =>
             /\ r.result = "pending"
             /\ r.timer = timer
             /\ r.pending_events = pending_events \cup {event.src_path}

\* an event has arrived while the timer's thread was processing a batch: its
\* path is pending and the timer is the one that was running
C29_Witness ==
    /\ lastOp.op = "on_modified"
    /\ lastOp.result = "pending"
    /\ timer = "running"
    /\ lastOp.name \in pending_events

\* C30: when the timer fires the batch is the pending set of that instant
\* and the pending set is left empty; a path added by an event is in the
\* pending set until a swap moves it into a batch; a batch walks no path
\* twice, a round for a registered file that can be read invokes the
\* callback of the file, and when the timer's thread ends every path of the
\* batch that names a registered file that can be read has had its round.
C30_BatchStep ==
    /\ (timer = "waiting" /\ timer' = "running") =>
          /\ files' = pending_events
          /\ pending_events' = {}
    /\ ~(timer = "waiting" /\ timer' = "running") =>
          pending_events \subseteq pending_events'
    /\ Walked =>
          /\ Round.path \in files
          /\ Round.path \notin files'
          /\ \A i \in DOMAIN reloads : reloads[i].path # Round.path
          /\ ( /\ FileOf(Round.path) \in {FileOf(k.path) : k \in DOMAIN watch_files}
               /\ disk[Canonical(Round.path)].kind = "file" ) =>
                Round.outcome \in {"reloaded", "CallbackError"}
    /\ (timer = "running" /\ timer' = "finished") =>
          \A p \in files' :
             ~( /\ FileOf(p) \in {FileOf(k.path) : k \in DOMAIN watch_files}
                /\ disk[Canonical(p)].kind = "file" )

C30_Batch == [][C30_BatchStep]_vars

\* C31: when the timer fires, at least one debounce window, the delay that
\* the watcher uses, has passed since the last event that it accepted.
C31_QuietStep ==
    (timer = "waiting" /\ timer' = "running") => clock.quiet >= clock.delay

C31_Quiet == [][C31_QuietStep]_vars

\* C37: the timer of a watcher made with the delay d fires d after it was
\* started.
C37_DelayStep ==
    (timer = "waiting" /\ timer' = "running") => clock.armed = clock.requested

C37_Delay == [][C37_DelayStep]_vars

\* C32: a path enters the pending set, and a timer is armed, only for an
\* event of a file that is registered on the watcher: the last event that
\* on_modified accepted names a file with a registration (no registration
\* is removed in this specification).
C32_RegisteredOnly ==
    (lastOp.op = "on_modified" /\ lastOp.result \in {"armed", "pending"}) =>
       FileOf(lastOp.name) \in {FileOf(k.path) : k \in DOMAIN watch_files}

\* C34: a removal of a registration while a batch is processed cannot make
\* the batch fail: a round whose test found the file registered invokes the
\* callback that was registered, and no round ends in the error of a lookup
\* of a key that is gone.
C34_GuardedStep == Walked => Round.outcome # "KeyError"

C34_Guarded == [][C34_GuardedStep]_vars

\* the outermost __setattr__ returns or raises in the step
Returns == stack # <<>> /\ stack' = <<>>

\* the last value that callback cb was given for field name of m, NoValue
\* when it was given none
LastDelivered(cs, cb, m, name) ==
    LET I == {i \in DOMAIN cs : cs[i].cb = cb /\ cs[i].model = m /\ cs[i].name = name} IN
    IF I = {} THEN NoValue ELSE cs[CHOOSE i \in I : \A j \in I : j <= i].arg

\* C35: a callback that subscribes or unsubscribes a callback on the field
\* being notified does not break the dispatch: no write ends in the error of
\* a set that changed during its iteration.
C35_DispatchStep == Returns => lastOp'.result # "RuntimeError"

C35_Dispatch == [][C35_DispatchStep]_vars

\* C36: when the outermost write of a field returns, the last value given to
\* every subscriber of the field is the value the field holds.
C36_LastStep ==
    (Returns /\ lastOp'.result = "ok") =>
       \A cb \in Listeners(subscribers'[lastOp.model], lastOp.name) :
          LastDelivered(calls', cb, lastOp.model, lastOp.name)
             = value'[lastOp.model][lastOp.name]

C36_Last == [][C36_LastStep]_vars

\* the innermost loop and the write its next callback makes, if any
Top == stack[Len(stack)]
NestedWrite ==
    /\ stack # <<>>
    /\ Cardinality(Listeners(subscribers[Top.model], Top.name)) = Top.size
    /\ Top.todo # <<>>
    /\ effect(Head(Top.todo), Top).kind = "write"
Inner == effect(Head(Top.todo), Top)

\* C33: a write made by a callback during its notification is applied at
\* once; when it changes the field, a loop over all the subscribers of that
\* field begins on top of the loop that called the callback, and when that
\* loop returns into the outer write every one of them has been given the
\* value; no write waits for a lock, and every write that began returns.
C33_NestedStep ==
    /\ NestedWrite =>
          /\ value'[Inner.model][Inner.name] = Inner.val
          /\ value[Inner.model][Inner.name] # Inner.val =>
                /\ Len(stack') = Len(stack) + 1
                /\ stack'[Len(stack')].val = Inner.val
                /\ {stack'[Len(stack')].todo[i] : i \in DOMAIN stack'[Len(stack')].todo}
                      = Listeners(subscribers[Inner.model], Inner.name)
    /\ (Len(stack) >= 2 /\ Len(stack') = Len(stack) - 1) =>
          \A cb \in Listeners(subscribers[Top.model], Top.name) :
             \E i \in DOMAIN calls :
                calls[i] = [cb |-> cb, arg |-> Top.val, model |-> Top.model, name |-> Top.name]

C33_Nested == [][C33_NestedStep]_vars /\ ((stack # <<>>) ~> (stack = <<>>))

\* a write of C.name has returned after _on_debug_change wrote K1.city and
\* the subscriber of K1.city was given the new city
C33_Witness ==
    /\ stack = <<>>
    /\ lastOp.op = "setattr" /\ lastOp.result = "ok"
    /\ value["K1"]["city"] = Str("b")
    /\ calls = << [cb |-> "_on_debug_change", arg |-> Str("b"), model |-> "C", name |-> "name"],
                  [cb |-> "on_field_change", arg |-> Str("b"), model |-> "K1", name |-> "city"] >>

\* C38: the registration of a file g, the handler of its directory and the
\* directory's watch by the observer disappear in no step but an unwatch
\* that names g: not in an unwatch of another file, repeated or of a file
\* never watched; and while g is registered, a round that walks a path of g
\* reads the file and invokes the callback of g.
C38_OnlyNamedStep ==
    \A g \in DOMAIN watch_files :
       (/\ folder(g) \in DOMAIN manager.dir_to_event_handler
        /\ manager.scheduled[folder(g)] > 0
        /\ ~(lastOp'.op = "unwatch" /\ FileOf(lastOp'.name) = FileOf(g.path))) =>
          /\ g \in DOMAIN watch_files'
          /\ watch_files'[g] = watch_files[g]
          /\ folder(g) \in DOMAIN manager'.dir_to_event_handler
          /\ manager'.dir_to_event_handler[folder(g)] = manager.dir_to_event_handler[folder(g)]
          /\ manager'.scheduled[folder(g)] > 0
          /\ (/\ Walked
              /\ FileOf(Round.path) = FileOf(g.path)
              /\ read_config(disk, g.path).result = "ok") =>
                /\ Round.outcome = "reloaded"
                /\ Round.callback = watch_files[g]

====
